---- MODULE Spec2Model ----
(***************************************************************************)
(* Path resolution of the OpenStudio MCP server                            *)
(* (openstudio_mcp_server/utils/path_utils.py) against a small POSIX       *)
(* filesystem.  Paths are strings of real characters; the os.path helpers  *)
(* that resolve_path calls are operators over those strings.               *)
(***************************************************************************)
EXTENDS Integers, Sequences, FiniteSets, TLC

VARIABLES dirs, files, ro, last, hist, run, current_model, current_file_path,
          content

vars == <<dirs, files, ro, last, hist, run, current_model, current_file_path,
         content>>

\* OpenStudioManager's state
manager == <<current_model, current_file_path>>

(***************************************************************************)
(* Strings                                                                 *)
(***************************************************************************)
CharAt(s, i) == SubSeq(s, i, i)

UpperChars == "ABCDEFGHIJKLMNOPQRSTUVWXYZ"

LowerChars == "abcdefghijklmnopqrstuvwxyz"

\* str.lower() on one character
LowerChar(c) ==
    IF \E i \in 1..Len(UpperChars) : CharAt(UpperChars, i) = c
    THEN CharAt(LowerChars, CHOOSE i \in 1..Len(UpperChars) : CharAt(UpperChars, i) = c)
    ELSE c

RECURSIVE lower_impl(_)
\* str.lower()
lower_impl(s) == IF s = "" THEN "" ELSE LowerChar(Head(s)) \o lower_impl(Tail(s))

RECURSIVE ReplaceChar(_, _, _)
\* str.replace(old, new) for one-character old and new
ReplaceChar(s, old, new) ==
    IF s = "" THEN ""
    ELSE (IF Head(s) = old THEN new ELSE Head(s)) \o ReplaceChar(Tail(s), old, new)

\* str.startswith(prefix)
StartsWith(s, prefix) ==
    Len(s) >= Len(prefix) /\ SubSeq(s, 1, Len(prefix)) = prefix

\* str.endswith(suffix)
EndsWith(s, suffix) ==
    Len(s) >= Len(suffix) /\ SubSeq(s, Len(s) - Len(suffix) + 1, Len(s)) = suffix

\* the characters of s from position i (1-based) on: s[i-1:]
From(s, i) == SubSeq(s, i, Len(s))

\* str.rfind(c) as a 1-based position, 0 when c does not occur
RFind(s, c) ==
    LET hits == {i \in 1..Len(s) : CharAt(s, i) = c}
    IN  IF hits = {} THEN 0 ELSE CHOOSE i \in hits : \A j \in hits : j <= i

\* s consists of the character c only (true of the empty string)
AllChar(s, c) == \A i \in 1..Len(s) : CharAt(s, i) = c

RECURSIVE RStrip(_, _)
\* str.rstrip(c)
RStrip(s, c) ==
    IF s # "" /\ CharAt(s, Len(s)) = c THEN RStrip(SubSeq(s, 1, Len(s) - 1), c) ELSE s

RECURSIVE SplitSlash(_)
\* str.split("/"): the sequence of components, empty ones included
SplitSlash(s) ==
    LET hits == {i \in 1..Len(s) : CharAt(s, i) = "/"}
    IN  IF hits = {} THEN <<s>>
        ELSE LET i == CHOOSE k \in hits : \A j \in hits : k <= j
             IN  <<SubSeq(s, 1, i - 1)>> \o SplitSlash(From(s, i + 1))

RECURSIVE JoinSlash(_)
\* "/".join(comps)
JoinSlash(comps) ==
    IF comps = <<>> THEN ""
    ELSE IF Len(comps) = 1 THEN comps[1]
    ELSE comps[1] \o "/" \o JoinSlash(Tail(comps))

Range(seq) == {seq[i] : i \in 1..Len(seq)}

RECURSIVE Concat(_)
Concat(seqs) == IF seqs = <<>> THEN <<>> ELSE Head(seqs) \o Concat(Tail(seqs))

(***************************************************************************)
(* posixpath, computed as the library computes it.  The operators named    *)
(* *_impl are the computations; the like-named operators further down read *)
(* them from tables for the strings the model is known to meet.            *)
(***************************************************************************)
\* os.path.isabs
isabs(p) == StartsWith(p, "/")

\* os.path.basename
basename_impl(p) == From(p, RFind(p, "/") + 1)

\* os.path.split
split_impl(p) ==
    LET i    == RFind(p, "/")
        head == SubSeq(p, 1, i)
    IN  <<IF head # "" /\ ~AllChar(head, "/") THEN RStrip(head, "/") ELSE head,
          From(p, i + 1)>>

\* os.path.dirname
dirname_impl(p) == split_impl(p)[1]

\* a join that keeps the directory when the second path is absolute
join_concat(a, b) == a \o "/" \o b

\* os.path.join of two components
join(a, b) ==
    IF StartsWith(b, "/") THEN b
    ELSE IF a = "" \/ EndsWith(a, "/") THEN a \o b
    ELSE a \o "/" \o b

\* os.path.splitext(p)[1]
splitext_ext_impl(p) ==
    LET sepIndex == RFind(p, "/")
        dotIndex == RFind(p, ".")
    IN  IF dotIndex > sepIndex
           /\ \E k \in (sepIndex + 1)..(dotIndex - 1) : CharAt(p, k) # "."
        THEN From(p, dotIndex)
        ELSE ""

RECURSIVE NormComps(_, _, _)
\* the component loop of os.path.normpath
NormComps(comps, new_comps, initial_slashes) ==
    IF comps = <<>> THEN new_comps
    ELSE LET comp == Head(comps)
             n    == Len(new_comps)
         IN  IF comp = "" \/ comp = "."
             THEN NormComps(Tail(comps), new_comps, initial_slashes)
             ELSE IF comp # ".."
                     \/ (initial_slashes = 0 /\ n = 0)
                     \/ (n > 0 /\ new_comps[n] = "..")
             THEN NormComps(Tail(comps), Append(new_comps, comp), initial_slashes)
             ELSE IF n > 0
             THEN NormComps(Tail(comps), SubSeq(new_comps, 1, n - 1), initial_slashes)
             ELSE NormComps(Tail(comps), new_comps, initial_slashes)

\* os.path.normpath
normpath_impl(p) ==
    IF p = "" THEN "."
    ELSE LET initial_slashes ==
                 IF ~StartsWith(p, "/") THEN 0
                 ELSE IF StartsWith(p, "//") /\ ~StartsWith(p, "///") THEN 2
                 ELSE 1
             body == JoinSlash(NormComps(SplitSlash(p), <<>>, initial_slashes))
             path == (IF initial_slashes = 2 THEN "//"
                      ELSE IF initial_slashes = 1 THEN "/" ELSE "") \o body
         IN  IF path = "" THEN "." ELSE path

\* the components the kernel walks for p, from the root or the current directory
components_impl(p) == IF isabs(p) THEN SplitSlash(From(p, 2)) ELSE SplitSlash(p)

(***************************************************************************)
(* resolve_path's Windows-host translation, steps 1 and 2                  *)
(***************************************************************************)
translate_path_impl(file_path) ==
    LET p == ReplaceChar(file_path, "\\", "/")
    IN  IF StartsWith(lower_impl(p), "c:/") THEN "/mnt/c/" \o From(p, 4) ELSE p

(***************************************************************************)
(* Configuration (config.paths) and the process environment                *)
(***************************************************************************)
workspace_root == "/workspace"

sample_files_path == join(workspace_root, "sample_files")

output_dir == join(workspace_root, "outputs")

logs_dir == join(workspace_root, "logs")

uploads_dir == "/mnt/user-data/uploads"

claude_home == "/home/claude"

models_dir == join(sample_files_path, "models")

\* os.getcwd(): the server process never changes directory
cwd == "/app"

(***************************************************************************)
(* The entries the model's filesystem can hold, in the order os.listdir    *)
(* reports them, and what the callers pass.                                *)
(***************************************************************************)
AllDirs ==
    <<"/", cwd, "/mnt", "/mnt/user-data", uploads_dir, "/home", claude_home,
      workspace_root, sample_files_path, models_dir, output_dir, logs_dir,
      "/mnt/c", "/mnt/c/Users", "/mnt/c/Users/a", "/data", "/data/out", "/app/out">>

AllFiles ==
    <<"/mnt/user-data/uploads/m.osm", "/home/claude/m.osm",
      "/workspace/sample_files/models/m.osm", "/workspace/sample_files/m.osm",
      "/workspace/outputs/m.osm", "/workspace/m.osm", "/app/m.osm", "/m.osm",
      "/workspace\\m.osm", "/mnt/c/Users/a/model.osm",
      "/workspace/sample_files/models/office.osm",
      "/workspace/sample_files/models/offices.osm",
      "/workspace/sample_files/models/office2.osm",
      "/workspace/sample_files/models/off.osm",
      "/workspace/sample_files/models/school.osm",
      "/workspace/outputs/office.osm", "/mnt/user-data/uploads/office.idf",
      "/workspace/outputs/zzzzzzzzzzzzzzzzzz.osm",
      "/workspace/outputs/m.idf", "/workspace/outputs/wizard_applied.osm",
      "/workspace/m", "/home/claude/m", "/home/m.osm">>

\* the paths asked for in must-exist lookups
Inputs == {"m.osm", "m.txt", "models/m.osm", "/m.osm", "/m.txt", "/workspace\\m.osm"}

\* the paths asked for where output paths are resolved
OutInputs ==
    {"m.osm", "m.txt", "/data/out/m.osm",
     "C:\\Users\\a\\model.osm", "c:\\Users\\a\\model.osm", "D:\\Users\\a\\model.osm"}

\* the names asked for where similar names are suggested
FuzzyInputs == {"offic.osm", "Office.OSM"}

\* the names the manager asks for beyond these: an IDF output, and the
\* wizard's "wizard_applied_<time>.osm" at one instant
ManagerInputs == {"m.idf", "wizard_applied.osm"}

\* an output path asked for with directories in front of the name
CreateInputs == {"sub/dir/out.osm"}

\* names without a suffix: that of a file and that of a directory
BareInputs == {"m", "models"}

\* a relative path that leads to the directory above
ParentInputs == {"../m.osm"}

AllInputs ==
    Inputs \union OutInputs \union FuzzyInputs \union ManagerInputs \union CreateInputs
    \union BareInputs \union ParentInputs

DefaultDirs == {"/data/out"}

(***************************************************************************)
(* Tables of the string computations, over the strings of the universe.    *)
(***************************************************************************)
TranslatedInputs == {translate_path_impl(p) : p \in AllInputs}

\* a translated input, its name, and both under every directory
Joined(t) ==
    {t, basename_impl(t)}
    \union {join(d, n) : d \in Range(AllDirs) \union DefaultDirs, n \in {t, basename_impl(t)}}

KnownPaths ==
    UNION {{p, dirname_impl(p)} :
              p \in Range(AllDirs) \union Range(AllFiles) \union DefaultDirs
                    \union AllInputs \union UNION {Joined(t) : t \in TranslatedInputs}}

KnownNames ==
    {".osm", ".idf"}
    \union UNION {{n, splitext_ext_impl(n), lower_impl(n)} :
                     n \in {basename_impl(p) : p \in KnownPaths}}

\* the function f with every value computed, once
Tabulate(f) == f @@ <<>>

SplitTable == Tabulate([p \in KnownPaths |-> split_impl(p)])

ExtTable == Tabulate([p \in KnownPaths |-> splitext_ext_impl(p)])

NormTable == Tabulate([p \in KnownPaths |-> normpath_impl(p)])

ComponentsTable == Tabulate([p \in KnownPaths |-> components_impl(p)])

LowerTable == Tabulate([n \in KnownNames |-> lower_impl(n)])

TranslateTable == Tabulate([p \in AllInputs |-> translate_path_impl(p)])

\* str.lower()
Lower(s) == IF s \in KnownNames THEN LowerTable[s] ELSE lower_impl(s)

\* os.path.split
split(p) == IF p \in KnownPaths THEN SplitTable[p] ELSE split_impl(p)

\* os.path.dirname
dirname(p) == split(p)[1]

\* os.path.basename
basename(p) == split(p)[2]

\* os.path.splitext(p)[1]
splitext_ext(p) == IF p \in KnownPaths THEN ExtTable[p] ELSE splitext_ext_impl(p)

\* os.path.normpath
normpath(p) == IF p \in KnownPaths THEN NormTable[p] ELSE normpath_impl(p)

components(p) == IF p \in KnownPaths THEN ComponentsTable[p] ELSE components_impl(p)

\* the drive prefix rewritten without testing for it
translate_path_always(file_path) ==
    "/mnt/c/" \o From(ReplaceChar(file_path, "\\", "/"), 4)

\* lines 62-72 of resolve_path
translate_path(file_path) ==
    IF file_path \in AllInputs THEN TranslateTable[file_path]
    ELSE translate_path_impl(file_path)

(***************************************************************************)
(* The filesystem: fs.dirs and fs.files are the existing directories and   *)
(* regular files, as normalized absolute paths; fs.ro are the directories  *)
(* in which the process may not create entries.  There are no symbolic     *)
(* links.                                                                  *)
(***************************************************************************)
child(d, name) == IF d = "/" THEN "/" \o name ELSE d \o "/" \o name

parent(d) == IF d = "/" THEN "/" ELSE dirname(d)

RECURSIVE Lookup(_, _, _)
\* the kernel's path walk from directory cur over comps: the entry reached,
\* "" when a component is missing or a non-directory is walked through
Lookup(cur, comps, fs) ==
    IF comps = <<>> THEN cur
    ELSE IF cur \notin fs.dirs THEN ""
    ELSE IF Head(comps) = "" \/ Head(comps) = "." THEN Lookup(cur, Tail(comps), fs)
    ELSE IF Head(comps) = ".." THEN Lookup(parent(cur), Tail(comps), fs)
    ELSE IF child(cur, Head(comps)) \in fs.dirs \union fs.files
    THEN Lookup(child(cur, Head(comps)), Tail(comps), fs)
    ELSE ""

\* the entry a path names, "" when there is none (stat)
Stat(p, fs) ==
    IF p = "" THEN "" ELSE Lookup(IF isabs(p) THEN "/" ELSE cwd, components(p), fs)

\* os.path.exists
exists(p, fs) == Stat(p, fs) # ""

\* os.path.isdir
isdir(p, fs) == Stat(p, fs) \in fs.dirs

\* os.path.abspath
abspath(p) == normpath(IF isabs(p) THEN p ELSE join(cwd, p))

\* the outcome of a directory creation: err is "" or the OSError raised, dirs
\* the directories existing afterwards
Made(err, newdirs) == [err |-> err, dirs |-> newdirs]

\* mkdir of the entry leaf in the directory entry up (the result of the walk
\* to the parent)
mkdir_at(up, leaf, fs) ==
    IF up = "" THEN Made("FileNotFoundError", fs.dirs)
    ELSE IF up \in fs.files THEN Made("NotADirectoryError", fs.dirs)
    ELSE IF leaf = "." \/ leaf = ".." THEN Made("FileExistsError", fs.dirs)
    ELSE IF up \in fs.ro THEN Made("PermissionError", fs.dirs)
    ELSE Made("", fs.dirs \union {child(up, leaf)})

mkdir_split(ht, fs) == mkdir_at(IF ht[1] = "" THEN cwd ELSE Stat(ht[1], fs), ht[2], fs)

\* os.mkdir(name)
mkdir(name, fs) ==
    IF name = "" THEN Made("FileNotFoundError", fs.dirs)
    ELSE IF exists(name, fs) THEN Made("FileExistsError", fs.dirs)
    ELSE mkdir_split(split(IF AllChar(name, "/") THEN name ELSE RStrip(name, "/")), fs)

\* makedirs without exist_ok=True: the error of mkdir is raised
exist_ok_false(made, name, fs) == made

\* makedirs: "except OSError: if not exist_ok or not path.isdir(name): raise"
exist_ok(made, name, fs) ==
    IF made.err # "" /\ isdir(name, fs) THEN Made("", fs.dirs) ELSE made

mkdir_exist_ok(name, fs) == exist_ok(mkdir(name, fs), name, fs)

\* makedirs after the parents were made (above is the recursive call's outcome;
\* FileExistsError from it is passed over)
makedirs_leaf(name, tail, above, fs) ==
    IF above.err \notin {"", "FileExistsError"} THEN above
    ELSE IF tail = "." THEN Made("", above.dirs)
    ELSE mkdir_exist_ok(name, [fs EXCEPT !.dirs = above.dirs])

RECURSIVE makedirs(_, _)

\* makedirs with ht = <<head, tail>>
makedirs_split(name, ht, fs) ==
    IF ht[1] # "" /\ ht[2] # "" /\ ~exists(ht[1], fs)
    THEN makedirs_leaf(name, ht[2], makedirs(ht[1], fs), fs)
    ELSE mkdir_exist_ok(name, fs)

\* makedirs: "head, tail = split(name); if not tail: head, tail = split(head)"
split_again(ht) == IF ht[2] = "" THEN split(ht[1]) ELSE ht

\* os.makedirs(name, exist_ok=True)
makedirs(name, fs) == makedirs_split(name, split_again(split(name)), fs)

(***************************************************************************)
(* difflib.SequenceMatcher(None, a, b).ratio(), as the exact fraction      *)
(* <<numerator, denominator>>.  No junk; strings are far below the length  *)
(* at which autojunk applies.                                              *)
(***************************************************************************)
RECURSIVE CommonPrefixLen(_, _)
CommonPrefixLen(a, b) ==
    IF a = "" \/ b = "" \/ Head(a) # Head(b) THEN 0
    ELSE 1 + CommonPrefixLen(Tail(a), Tail(b))

\* SequenceMatcher.find_longest_match over the whole of a and b: <<i, j, k>> with
\* a[i..i+k-1] = b[j..j+k-1], k maximal, then i minimal, then j minimal
\* (the longest of the candidate blocks S, the first in a, then the first in b)
longest_first(S) ==
    CHOOSE x \in S : \A y \in S :
        \/ x[3] > y[3]
        \/ x[3] = y[3] /\ (x[1] < y[1] \/ (x[1] = y[1] /\ x[2] <= y[2]))

find_longest_match(a, b) ==
    longest_first({<<0, 0, 0>>}
                  \union {<<i, j, CommonPrefixLen(From(a, i), From(b, j))>> :
                             i \in 1..Len(a), j \in 1..Len(b)})

RECURSIVE matching_chars(_, _)

\* the block m and the matching blocks to its left and to its right
matching_around(a, b, m) ==
    IF m[3] = 0 THEN 0
    ELSE m[3] + matching_chars(SubSeq(a, 1, m[1] - 1), SubSeq(b, 1, m[2] - 1))
              + matching_chars(From(a, m[1] + m[3]), From(b, m[2] + m[3]))

\* the sum of the sizes of SequenceMatcher.get_matching_blocks()
matching_chars(a, b) ==
    IF a = "" \/ b = "" THEN 0 ELSE matching_around(a, b, find_longest_match(a, b))

\* SequenceMatcher.ratio(): 2.0 * matches / (len(a) + len(b)), 1.0 for two empty strings
ratio_impl(a, b) ==
    IF Len(a) + Len(b) = 0 THEN <<1, 1>>
    ELSE <<2 * matching_chars(a, b), Len(a) + Len(b)>>

\* the similarity of every requested name to every file name
RatioPairs ==
    {lower_impl(basename_impl(t)) : t \in TranslatedInputs}
    \X {lower_impl(basename_impl(f)) : f \in Range(AllFiles)}

RatioTable == Tabulate([pair \in RatioPairs |-> ratio_impl(pair[1], pair[2])])

\* SequenceMatcher(None, a, b).ratio()
ratio(a, b) ==
    IF <<a, b>> \in RatioPairs THEN RatioTable[<<a, b>>] ELSE ratio_impl(a, b)

\* x >= y for fractions with positive denominators
FracGE(x, y) == x[1] * y[2] >= y[1] * x[2]

\* similarity_threshold: float = 0.3
similarity_threshold == <<3, 10>>

\* max_suggestions: int = 10
max_suggestions == 10

\* suggestions[:5] in the error message
shown_suggestions == 5

RECURSIVE walk(_, _)
\* os.walk(top), top-down: the full paths os.path.join(root, filename) of the
\* files of top, then of each subdirectory's tree
walk(top, fs) ==
    SelectSeq(AllFiles, LAMBDA f : f \in fs.files /\ dirname(f) = top)
    \o Concat([i \in 1..Len(AllDirs) |->
                  IF AllDirs[i] \in fs.dirs /\ AllDirs[i] # "/" /\ parent(AllDirs[i]) = top
                  THEN walk(AllDirs[i], fs) ELSE <<>>])

\* a sort without reverse=True: x goes after the entries that are strictly less similar
sorted_insert_ascending(x, rest) ==
    Cardinality({i \in 1..Len(rest) : ~FracGE(rest[i][1], x[1])})

\* the position at which x is put into the sorted rest: after the entries that
\* are strictly more similar
sorted_insert(x, rest) ==
    Cardinality({i \in 1..Len(rest) : ~FracGE(x[1], rest[i][1])})

insert_at(x, rest, n) == SubSeq(rest, 1, n) \o <<x>> \o SubSeq(rest, n + 1, Len(rest))

insert_sorted(x, rest) == insert_at(x, rest, sorted_insert(x, rest))

RECURSIVE sort_desc(_)
\* list.sort(reverse=True, key=similarity): stable, descending
sort_desc(seq) ==
    IF seq = <<>> THEN <<>> ELSE insert_sorted(Head(seq), sort_desc(Tail(seq)))

\* the search directories of suggest_similar_paths
suggestion_dirs(fs) ==
    <<workspace_root, sample_files_path, join(sample_files_path, "models"), output_dir>>
    \o (IF exists(uploads_dir, fs) THEN <<uploads_dir>> ELSE <<>>)
    \o (IF exists(claude_home, fs) THEN <<claude_home>> ELSE <<>>)

\* the extension filter turned around: the files of the filter are skipped
keeps_other_extensions(target_name, extensions, filename) ==
    /\ extensions # <<>> =>
         Lower(splitext_ext(filename)) \notin {Lower(e) : e \in Range(extensions)}
    /\ FracGE(ratio(target_name, Lower(filename)), similarity_threshold)

\* the extension filter and the threshold on one file
keeps(target_name, extensions, filename) ==
    /\ extensions # <<>> =>
         Lower(splitext_ext(filename)) \in {Lower(e) : e \in Range(extensions)}
    /\ FracGE(ratio(target_name, Lower(filename)), similarity_threshold)

\* suggestions.append((similarity, full_path)) for the files found
score(target_name, found) ==
    [i \in 1..Len(found) |-> <<ratio(target_name, Lower(basename(found[i]))), found[i]>>]

\* the walk of one search directory
scan(search_dir, target_name, extensions, fs) ==
    score(target_name,
          IF exists(search_dir, fs)
          THEN SelectSeq(walk(search_dir, fs),
                         LAMBDA f : keeps(target_name, extensions, basename(f)))
          ELSE <<>>)

scan_all(search_dirs, target_name, extensions, fs) ==
    Concat([i \in 1..Len(search_dirs) |-> scan(search_dirs[i], target_name, extensions, fs)])

\* the sorted <<similarity, full_path>> pairs of suggest_similar_paths
scored_suggestions(target_path, extensions, fs) ==
    sort_desc(scan_all(suggestion_dirs(fs), Lower(basename(target_path)), extensions, fs))

\* seq[:n]
Prefix(seq, n) == SubSeq(seq, 1, IF Len(seq) < n THEN Len(seq) ELSE n)

paths_of(scored) == [i \in 1..Len(scored) |-> scored[i][2]]

\* PathResolver.suggest_similar_paths
suggest_similar_paths(target_path, extensions, fs) ==
    paths_of(Prefix(scored_suggestions(target_path, extensions, fs), max_suggestions))

(***************************************************************************)
(* resolve_path.  A request is                                             *)
(*   [file_path, file_types, must_exist, default_dir, enable_fuzzy_matching]*)
(* with file_types = <<>> and default_dir = "" standing for None (the code *)
(* tests both for truth only).  The outcome is                             *)
(*   kind        "ok", or the class of the exception raised                *)
(*   path        the string returned                                       *)
(*   searched    the roots listed after "Searched in:" in the message      *)
(*   lists_roots whether the message has the "Searched in:" list           *)
(*   suggestions the paths listed after "Did you mean one of these?"       *)
(*   dirs        the directories existing afterwards                       *)
(***************************************************************************)
Return(path, newdirs) ==
    [kind |-> "ok", path |-> path, searched |-> <<>>, lists_roots |-> FALSE,
     suggestions |-> <<>>, dirs |-> newdirs]

Raise(kind, searched, lists_roots, suggestions, newdirs) ==
    [kind |-> kind, path |-> "", searched |-> searched, lists_roots |-> lists_roots,
     suggestions |-> suggestions, dirs |-> newdirs]

\* the membership test of the extension validation turned around
bad_extension_inverted(file_path, file_types) ==
    /\ file_types # <<>>
    /\ Lower(splitext_ext(file_path)) # ""
    /\ Lower(splitext_ext(file_path)) \in {Lower(ft) : ft \in Range(file_types)}

\* the extension validation raises ValueError
bad_extension(file_path, file_types) ==
    /\ file_types # <<>>
    /\ Lower(splitext_ext(file_path)) # ""
    /\ Lower(splitext_ext(file_path)) \notin {Lower(ft) : ft \in Range(file_types)}

\* the order the docstring of resolve_path gives: workspace root before the rest
search_locations_as_documented ==
    <<(<<"Claude uploads", uploads_dir>>), (<<"Claude home", claude_home>>),
      (<<"workspace root", workspace_root>>), (<<"sample_files", sample_files_path>>),
      (<<"sample_files/models", join(sample_files_path, "models")>>),
      (<<"outputs", output_dir>>)>>

\* the <<label, directory>> pairs of strategies 2 to 7, in their order
search_locations ==
    <<(<<"Claude uploads", uploads_dir>>), (<<"Claude home", claude_home>>),
      (<<"sample_files/models", join(sample_files_path, "models")>>),
      (<<"sample_files", sample_files_path>>), (<<"outputs", output_dir>>),
      (<<"workspace root", workspace_root>>)>>

\* every location appended without the os.path.exists test
build_search_paths_unfiltered(fs) == search_locations

\* search_paths kept from the call before: the locations that existed then
build_search_paths_cached(fs) ==
    SelectSeq(search_locations,
              LAMBDA loc : IF hist # <<>> THEN loc[2] \in hist[1].before
                           ELSE exists(loc[2], fs))

\* search_paths: the locations whose directory exists
build_search_paths(fs) == SelectSeq(search_locations, LAMBDA loc : exists(loc[2], fs))

\* the least element of a set of positions, 0 for the empty set
First(S) == IF S = {} THEN 0 ELSE CHOOSE i \in S : \A j \in S : i <= j

\* the position in search_paths of the first directory holding file_path, or 0
first_hit(file_path, search_paths, fs) ==
    First({i \in 1..Len(search_paths) : exists(join(search_paths[i][2], file_path), fs)})

\* the output path returned without creating its directory
synthesize_without_makedirs(output_path, fs) == Return(output_path, fs.dirs)

\* "os.makedirs(os.path.dirname(output_path), exist_ok=True)" in try/except/pass
synthesize(output_path, fs) == Return(output_path, makedirs(dirname(output_path), fs).dirs)

\* the output path made of target_dir and the whole of file_path
create_output_path_keeping_dirs(file_path, default_dir, fs) ==
    synthesize(join(IF default_dir # "" THEN default_dir ELSE output_dir, file_path), fs)

\* the branch for must_exist=False after every search missed
create_output_path(file_path, default_dir, fs) ==
    synthesize(join(IF default_dir # "" THEN default_dir ELSE output_dir,
                    basename(file_path)), fs)

\* the two FileNotFoundError messages
report(suggestions, search_paths, fs) ==
    IF suggestions # <<>>
    THEN Raise("FileNotFoundError", <<>>, FALSE, Prefix(suggestions, shown_suggestions),
               fs.dirs)
    ELSE Raise("FileNotFoundError", [i \in 1..Len(search_paths) |-> search_paths[i][2]],
               TRUE, <<>>, fs.dirs)

\* the failure handling: fuzzy suggestions when enabled, else the searched locations
not_found(file_path, file_types, enable_fuzzy_matching, search_paths, fs) ==
    report(IF enable_fuzzy_matching
           THEN suggest_similar_paths(file_path, file_types, fs) ELSE <<>>,
           search_paths, fs)

\* the failure handling without the test of must_exist: an output path is
\* made up for a lookup too
after_search_always_creates(req, file_path, search_paths, first, fs) ==
    IF first > 0
    THEN Return(abspath(join(search_paths[first][2], file_path)), fs.dirs)
    ELSE IF exists(file_path, fs)
    THEN Return(abspath(file_path), fs.dirs)
    ELSE create_output_path(file_path, req.default_dir, fs)

\* an output path made up without looking for the file first
after_search_create_first(req, file_path, search_paths, first, fs) ==
    IF ~req.must_exist
    THEN create_output_path(file_path, req.default_dir, fs)
    ELSE IF first > 0
    THEN Return(abspath(join(search_paths[first][2], file_path)), fs.dirs)
    ELSE IF exists(file_path, fs)
    THEN Return(abspath(file_path), fs.dirs)
    ELSE not_found(file_path, req.file_types, req.enable_fuzzy_matching, search_paths, fs)

\* the current directory tried before the candidate roots
after_search_cwd_first(req, file_path, search_paths, first, fs) ==
    IF exists(file_path, fs)
    THEN Return(abspath(file_path), fs.dirs)
    ELSE IF first > 0
    THEN Return(abspath(join(search_paths[first][2], file_path)), fs.dirs)
    ELSE IF ~req.must_exist
    THEN create_output_path(file_path, req.default_dir, fs)
    ELSE not_found(file_path, req.file_types, req.enable_fuzzy_matching, search_paths, fs)

\* the loop over search_paths found file_path at position first (0: nowhere)
after_search(req, file_path, search_paths, first, fs) ==
    IF first > 0
    THEN Return(abspath(join(search_paths[first][2], file_path)), fs.dirs)
    ELSE IF exists(file_path, fs)
    THEN Return(abspath(file_path), fs.dirs)
    ELSE IF ~req.must_exist
    THEN create_output_path(file_path, req.default_dir, fs)
    ELSE not_found(file_path, req.file_types, req.enable_fuzzy_matching, search_paths, fs)

search(req, file_path, search_paths, fs) ==
    after_search(req, file_path, search_paths, first_hit(file_path, search_paths, fs), fs)

\* strategy 1 with must_exist=False: makedirs is not guarded
absolute_output(file_path, made) ==
    IF made.err # "" THEN Raise(made.err, <<>>, FALSE, <<>>, made.dirs)
    ELSE Return(file_path, made.dirs)

\* resolve_path from the extension validation on, file_path being translated
resolve_translated(req, file_path, fs) ==
    IF bad_extension(file_path, req.file_types)
    THEN Raise("ValueError", <<>>, FALSE, <<>>, fs.dirs)
    ELSE IF isabs(file_path) /\ req.must_exist /\ exists(file_path, fs)
    THEN Return(file_path, fs.dirs)
    ELSE IF isabs(file_path) /\ ~req.must_exist
    THEN absolute_output(file_path, makedirs(dirname(file_path), fs))
    ELSE search(req, file_path, build_search_paths(fs), fs)

resolve_path(req, fs) == resolve_translated(req, translate_path(req.file_path), fs)

(***************************************************************************)
(* The system: the filesystem, changed by resolve_path and by everything   *)
(* else on the machine, and the callers of resolve_path.  last holds the   *)
(* call whose result the caller has not taken yet (<<>> when there is      *)
(* none): its request, its outcome and the directories that existed when   *)
(* it was made.  Calls are synchronous: nothing else runs during one.      *)
(***************************************************************************)
FS == [dirs |-> dirs, files |-> files, ro |-> ro]

\* d and the directories above it
Ancestors(d) == {a \in Range(AllDirs) : a = "/" \/ a = d \/ StartsWith(d, a \o "/")}

Under(d) == {x \in Range(AllDirs) \union Range(AllFiles) : x = d \/ StartsWith(x, d \o "/")}

MaxFiles == 2

\* must-exist lookups, as resolve_osm_path and the tests make them
Requests ==
    [file_path : Inputs, file_types : {<<".osm">>}, must_exist : {TRUE},
     default_dir : {""}, enable_fuzzy_matching : BOOLEAN]
    \union
    [file_path : {"m.txt"}, file_types : {<<>>}, must_exist : {TRUE},
     default_dir : {""}, enable_fuzzy_matching : {FALSE}]

\* output-path resolutions, as resolve_output_path makes them, next to lookups
OutRequests ==
    [file_path : OutInputs, file_types : {<<".osm">>}, must_exist : {FALSE},
     default_dir : {""} \union DefaultDirs, enable_fuzzy_matching : {FALSE}]
    \union
    [file_path : {"m.txt"}, file_types : {<<>>}, must_exist : {FALSE},
     default_dir : {""}, enable_fuzzy_matching : {FALSE}]
    \union
    [file_path : {"m.txt", "C:\\Users\\a\\model.osm", "c:\\Users\\a\\model.osm",
                  "D:\\Users\\a\\model.osm"},
     file_types : {<<".osm">>}, must_exist : {TRUE},
     default_dir : {""}, enable_fuzzy_matching : {FALSE}]

\* Python's None; a value that is present is a one-element sequence
None == <<>>

\* the calls of resolve_path that run step by step, side by side
Procs == {1, 2}

\* no call in progress
Idle ==
    [pc |-> "idle", req |-> <<>>, guarded |-> FALSE, path |-> "", cur |-> "",
     stack |-> <<>>, err |-> "", hit |-> "", before |-> {}]

\* PathConfig.__post_init__ in a container whose /workspace exists; the
\* manager as OpenStudioManager.__init__ leaves it
Init ==
    /\ dirs = {"/", cwd, workspace_root, sample_files_path, output_dir, logs_dir}
    /\ files = {}
    /\ ro = {}
    /\ last = <<>>
    /\ hist = <<>>
    /\ run = [p \in Procs |-> Idle]
    /\ current_model = None
    /\ current_file_path = None
    /\ content = <<>>

\* another process creates a directory and the missing directories above it
MkDirP(d) ==
    /\ last = <<>>
    /\ d \notin dirs
    /\ Ancestors(d) \cap files = {}
    /\ dirs' = dirs \union Ancestors(d)
    /\ UNCHANGED <<files, ro, last, hist, run, manager, content>>

\* what the files S hold, of what is known of the files' content
Kept(S) == [g \in DOMAIN content \cap S |-> content[g]]

\* another process removes a directory tree
RmTree(d) ==
    /\ last = <<>>
    /\ d \in dirs
    /\ dirs' = dirs \ Under(d)
    /\ files' = files \ Under(d)
    /\ content' = Kept(files \ Under(d))
    /\ UNCHANGED <<ro, last, hist, run, manager>>

\* a file is uploaded, written or copied into an existing directory
CreateFile(f) ==
    /\ last = <<>>
    /\ f \notin files
    /\ dirname(f) \in dirs
    /\ Cardinality(files) < MaxFiles
    /\ files' = files \union {f}
    /\ UNCHANGED <<dirs, ro, last, hist, run, manager, content>>

RemoveFile(f) ==
    /\ last = <<>>
    /\ f \in files
    /\ files' = files \ {f}
    /\ content' = Kept(files \ {f})
    /\ UNCHANGED <<dirs, ro, last, hist, run, manager>>

\* a directory becomes read-only for the server (a read-only mount), or writable again
Chmod(d) ==
    /\ last = <<>>
    /\ d \in dirs
    /\ ro' = IF d \in ro THEN ro \ {d} ELSE ro \union {d}
    /\ UNCHANGED <<dirs, files, last, hist, run, manager, content>>

\* the call's outcome res takes effect and is handed to the caller
Outcome(req, res) ==
    /\ dirs' = res.dirs
    /\ last' = <<[req |-> req, res |-> res, before |-> dirs]>>
    /\ UNCHANGED <<files, ro, hist, run, manager, content>>

\* a resolve_path that answers a repeated request from the result it gave before
CallCached(req) ==
    /\ last = <<>>
    /\ Outcome(req, IF hist # <<>> /\ hist[1].req = req
                    THEN [hist[1].res EXCEPT !.dirs = dirs]
                    ELSE resolve_path(req, FS))

\* a caller runs resolve_path(config, req.file_path, ...)
Call(req) == last = <<>> /\ Outcome(req, resolve_path(req, FS))

\* the caller takes the result
Returned ==
    /\ last # <<>>
    /\ last' = <<>>
    /\ UNCHANGED <<dirs, files, ro, hist, run, manager, content>>

LookupFiles ==
    {"/mnt/user-data/uploads/m.osm", "/home/claude/m.osm",
     "/workspace/sample_files/models/m.osm", "/workspace/sample_files/m.osm",
     "/workspace/outputs/m.osm", "/workspace/m.osm", "/app/m.osm", "/m.osm",
     "/workspace\\m.osm"}

EnvDirs == {uploads_dir, claude_home, models_dir}

RemovableDirs == {"/mnt", "/home", output_dir}

Next ==
    \/ \E d \in EnvDirs : MkDirP(d)
    \/ \E d \in RemovableDirs : RmTree(d)
    \/ \E f \in LookupFiles : CreateFile(f)
    \/ \E f \in LookupFiles : RemoveFile(f)
    \/ \E req \in Requests : Call(req)
    \/ Returned

\* must-exist lookups against a changing filesystem
Spec == Init /\ [][Next]_vars

OutFiles == {"/mnt/c/Users/a/model.osm", "/workspace/m.osm", "/app/m.osm"}

OutEnvDirs == {"/mnt/c/Users/a"}

OutRemovableDirs == {"/mnt", output_dir, "/data"}

ReadOnlyDirs == {"/"}

NextOut ==
    \/ \E d \in OutEnvDirs : MkDirP(d)
    \/ \E d \in OutRemovableDirs : RmTree(d)
    \/ \E f \in OutFiles : CreateFile(f)
    \/ \E f \in OutFiles : RemoveFile(f)
    \/ \E d \in ReadOnlyDirs : Chmod(d)
    \/ \E req \in OutRequests : Call(req)
    \/ Returned

\* output-path resolutions, with directories that cannot always be created
SpecOut == Init /\ [][NextOut]_vars

\* what PathResolver(config).suggest_similar_paths(target_path, extensions) gives
Suggestions(suggestions) ==
    [kind |-> "suggested", path |-> "", searched |-> <<>>, lists_roots |-> FALSE,
     suggestions |-> suggestions, dirs |-> dirs]

\* a caller asks the PathResolver for the names similar to target_path
Suggest(target_path, extensions) ==
    /\ last = <<>>
    /\ Outcome([target_path |-> target_path, extensions |-> extensions],
               Suggestions(suggest_similar_paths(target_path, extensions, FS)))

MaxModels == 5

\* a model file is stored next to the others
StoreModel(f) ==
    /\ last = <<>>
    /\ f \notin files
    /\ dirname(f) \in dirs
    /\ Cardinality(files) < MaxModels
    /\ files' = files \union {f}
    /\ UNCHANGED <<dirs, ro, last, hist, run, manager, content>>

FuzzyFiles ==
    {"/workspace/sample_files/models/office.osm", "/workspace/sample_files/models/offices.osm",
     "/workspace/sample_files/models/office2.osm", "/workspace/sample_files/models/off.osm",
     "/workspace/sample_files/models/school.osm", "/workspace/outputs/office.osm",
     "/mnt/user-data/uploads/office.idf", "/workspace/outputs/zzzzzzzzzzzzzzzzzz.osm"}

\* must-exist lookups of a mistyped name, as resolve_osm_path makes them
FuzzyRequests ==
    [file_path : {"offic.osm"}, file_types : {<<".osm">>}, must_exist : {TRUE},
     default_dir : {""}, enable_fuzzy_matching : {TRUE}]

NextFuzzy ==
    \/ \E d \in {uploads_dir, models_dir} : MkDirP(d)
    \/ \E d \in {"/mnt"} : RmTree(d)
    \/ \E f \in FuzzyFiles : StoreModel(f)
    \/ \E f \in FuzzyFiles : RemoveFile(f)
    \/ \E t \in FuzzyInputs, e \in {<<>>, <<".osm">>} : Suggest(t, e)
    \/ \E req \in FuzzyRequests : Call(req)
    \/ Returned

\* similar names suggested among many model files
SpecFuzzy == Init /\ [][NextFuzzy]_vars

\* the outcome res of the repeated call takes effect and is put before the
\* record of the call it repeats
Again(res) ==
    /\ dirs' = res.dirs
    /\ last' = <<[req |-> last[1].req, res |-> res, before |-> dirs]>> \o last
    /\ UNCHANGED <<files, ro, hist, run, manager, content>>

\* the caller makes the call it just made once more
CallAgain ==
    /\ Len(last) = 1
    /\ Again(resolve_path(last[1].req, FS))

\* output paths, with absolute, relative and no default_dir, and lookups
AgainRequests ==
    [file_path : {"m.osm"}, file_types : {<<".osm">>}, must_exist : {FALSE},
     default_dir : {"", "/data/out", "out"}, enable_fuzzy_matching : {FALSE}]
    \union
    [file_path : {"/data/out/m.osm"}, file_types : {<<".osm">>}, must_exist : {FALSE},
     default_dir : {""}, enable_fuzzy_matching : {FALSE}]
    \union
    [file_path : {"m.osm", "m.txt"}, file_types : {<<".osm">>}, must_exist : {TRUE},
     default_dir : {""}, enable_fuzzy_matching : {TRUE}]

NextAgain ==
    \/ \E d \in {"/data", "/app/out", output_dir} : RmTree(d)
    \/ \E f \in {"/workspace/m.osm", "/workspace/outputs/office.osm"} : CreateFile(f)
    \/ \E f \in {"/workspace/m.osm", "/workspace/outputs/office.osm"} : RemoveFile(f)
    \/ \E d \in ReadOnlyDirs : Chmod(d)
    \/ \E req \in AgainRequests : Call(req)
    \/ CallAgain
    \/ Returned

\* every call made twice in a row
SpecAgain == Init /\ [][NextAgain]_vars

\* the caller takes the result and keeps it, with the filesystem it was
\* computed from, to compare the next result with (hist)
Remember ==
    /\ last # <<>>
    /\ hist' = <<[req |-> last[1].req, res |-> last[1].res,
                  before |-> last[1].before, files |-> files, ro |-> ro]>>
    /\ last' = <<>>
    /\ UNCHANGED <<dirs, files, ro, run, manager, content>>

HistRequests ==
    [file_path : {"m.osm"}, file_types : {<<".osm">>}, must_exist : {TRUE},
     default_dir : {""}, enable_fuzzy_matching : BOOLEAN]

HistFiles == {"/mnt/user-data/uploads/m.osm", "/workspace/outputs/m.osm", "/workspace/m.osm"}

HistEnvDirs == {uploads_dir, output_dir}

HistRemovableDirs == {"/mnt", output_dir}

NextHist ==
    \/ \E d \in HistEnvDirs : MkDirP(d)
    \/ \E d \in HistRemovableDirs : RmTree(d)
    \/ \E f \in HistFiles : CreateFile(f)
    \/ \E f \in HistFiles : RemoveFile(f)
    \/ \E req \in HistRequests : Call(req)
    \/ Remember

\* one lookup repeated while files come and go between the calls
SpecHist == Init /\ [][NextHist]_vars

\* output paths of a bare name and of a name with directories in front,
\* with and without default_dir
CreateRequests ==
    [file_path : {"m.osm"} \union CreateInputs, file_types : {<<".osm">>},
     must_exist : {FALSE}, default_dir : {""} \union DefaultDirs,
     enable_fuzzy_matching : {FALSE}]

CreateFiles == {"/workspace/outputs/m.osm", "/workspace/m.osm", "/app/m.osm"}

NextCreate ==
    \/ \E d \in {"/data", output_dir} : RmTree(d)
    \/ \E f \in CreateFiles : CreateFile(f)
    \/ \E f \in CreateFiles : RemoveFile(f)
    \/ \E req \in CreateRequests : Call(req)
    \/ Returned

\* output paths resolved while the files they may name come and go
SpecCreate == Init /\ [][NextCreate]_vars

\* lookups of names with and without a suffix, as resolve_osm_path and
\* resolve_idf_path make them
BareRequests ==
    [file_path : {"m.osm"} \union BareInputs, file_types : {<<".osm">>, <<".idf">>},
     must_exist : {TRUE}, default_dir : {""}, enable_fuzzy_matching : {TRUE}]

BareFiles ==
    {"/home/claude/m", "/workspace/m", "/workspace/m.osm",
     "/workspace/sample_files/models/m.osm"}

NextBare ==
    \/ \E d \in {claude_home, models_dir} : MkDirP(d)
    \/ \E d \in {"/home", models_dir} : RmTree(d)
    \/ \E f \in BareFiles : CreateFile(f)
    \/ \E f \in BareFiles : RemoveFile(f)
    \/ \E req \in BareRequests : Call(req)
    \/ Returned

\* lookups by a name that has no suffix, among files and directories
SpecBare == Init /\ [][NextBare]_vars

\* lookups of a name and of the same name in the directory above
ParentRequests ==
    [file_path : {"m.osm"} \union ParentInputs, file_types : {<<".osm">>},
     must_exist : {TRUE}, default_dir : {""}, enable_fuzzy_matching : BOOLEAN]

NextParent ==
    \/ \E d \in {uploads_dir, claude_home} : MkDirP(d)
    \/ \E d \in {"/mnt", "/home"} : RmTree(d)
    \/ \E f \in {"/m.osm", "/workspace/m.osm", "/home/m.osm", "/home/claude/m.osm"} :
          CreateFile(f)
    \/ \E f \in {"/m.osm", "/workspace/m.osm", "/home/m.osm", "/home/claude/m.osm"} :
          RemoveFile(f)
    \/ \E req \in ParentRequests : Call(req)
    \/ Returned

\* lookups by relative paths with ".." in them
SpecParent == Init /\ [][NextParent]_vars

(***************************************************************************)
(* resolve_path in create mode, one filesystem step at a time.  Two calls   *)
(* (Procs) run side by side without a lock; run[p] is the position of call  *)
(* p: the request, the output path it will return, and where os.makedirs    *)
(* of that path's directory stands.  makedirs(name) first asks              *)
(* exists(head) for the parent, recursing into makedirs(head) when it is    *)
(* missing (pc "probe", the names waiting for their mkdir on stack), then   *)
(* calls mkdir(name) (pc "mkdir"), and after a failed mkdir asks            *)
(* isdir(name) (pc "isdir").  Everything before makedirs only reads.        *)
(***************************************************************************)
\* the call has reached os.makedirs(os.path.dirname(output_path), exist_ok=True);
\* guarded: it stands in try/except/pass (line 147), not bare (line 91)
Making(req, output_path, guarded) ==
    [pc |-> "probe", req |-> req, guarded |-> guarded, path |-> output_path,
     cur |-> dirname(output_path), stack |-> <<>>, err |-> "", hit |-> "",
     before |-> dirs]

\* the call is over: it returned its path (err = "") or raised err
Ended(r, err) == [r EXCEPT !.pc = "done", !.err = err]

RECURSIVE Advance(_)

\* makedirs(r.cur) is done: the makedirs that called it goes on to its own
\* mkdir ("if tail == cdir: return" skips it), the outermost one returns
Advance(r) ==
    IF r.stack = <<>> THEN Ended(r, "")
    ELSE IF split_again(split(Head(r.stack)))[2] = "."
    THEN Advance([r EXCEPT !.stack = Tail(r.stack)])
    ELSE [r EXCEPT !.pc = "mkdir", !.cur = Head(r.stack), !.stack = Tail(r.stack),
                   !.err = ""]

\* makedirs(r.cur) raises r.err: the makedirs that called it passes over
\* FileExistsError; out of the outermost one the error reaches resolve_path,
\* which swallows it in the guarded branch
Raised(r) ==
    IF r.stack # <<>> /\ r.err = "FileExistsError" THEN Advance(r)
    ELSE IF r.guarded THEN Ended(r, "")
    ELSE Ended(r, r.err)

\* makedirs without exist_ok=True: the error of mkdir is raised at once
mkdir_failed_raises(r, fs) == Raised(r)

\* makedirs after mkdir(r.cur) raised r.err: "if not exist_ok or not
\* path.isdir(name): raise"
mkdir_failed(r, fs) ==
    IF exist_ok(Made(r.err, fs.dirs), r.cur, fs).err = "" THEN Advance(r) ELSE Raised(r)

\* call p runs up to os.makedirs: translation, extension check, and for a
\* relative path the search of the candidate roots and of the current
\* directory, which finds nothing
Start(p, req) ==
    /\ run[p].pc = "idle"
    /\ ~req.must_exist
    /\ ~bad_extension(translate_path(req.file_path), req.file_types)
    /\ \/ isabs(translate_path(req.file_path))
       \/ /\ first_hit(translate_path(req.file_path), build_search_paths(FS), FS) = 0
          /\ ~exists(translate_path(req.file_path), FS)
    /\ run' = [run EXCEPT ![p] =
                  IF isabs(translate_path(req.file_path))
                  THEN Making(req, translate_path(req.file_path), FALSE)
                  ELSE Making(req, join(IF req.default_dir # "" THEN req.default_dir
                                        ELSE output_dir,
                                        basename(translate_path(req.file_path))), TRUE)]
    /\ UNCHANGED <<dirs, files, ro, last, hist, manager, content>>

\* makedirs(cur): "if head and tail and not path.exists(head)"
Probe(p) ==
    /\ run[p].pc = "probe"
    /\ run' = [run EXCEPT ![p] =
                  IF /\ split_again(split(run[p].cur))[1] # ""
                     /\ split_again(split(run[p].cur))[2] # ""
                     /\ ~exists(split_again(split(run[p].cur))[1], FS)
                  THEN [run[p] EXCEPT !.cur = split_again(split(run[p].cur))[1],
                                      !.stack = <<run[p].cur>> \o run[p].stack]
                  ELSE [run[p] EXCEPT !.pc = "mkdir"]]
    /\ UNCHANGED <<dirs, files, ro, last, hist, manager, content>>

\* makedirs(cur): "mkdir(name, mode)"
Mkdir(p) ==
    /\ run[p].pc = "mkdir"
    /\ dirs' = mkdir(run[p].cur, FS).dirs
    /\ run' = [run EXCEPT ![p] =
                  IF mkdir(run[p].cur, FS).err = "" THEN Advance(run[p])
                  ELSE [run[p] EXCEPT !.pc = "isdir", !.err = mkdir(run[p].cur, FS).err,
                                      !.hit = mkdir(run[p].cur, FS).err]]
    /\ UNCHANGED <<files, ro, last, hist, manager, content>>

\* makedirs(cur): the handler of mkdir's OSError
Isdir(p) ==
    /\ run[p].pc = "isdir"
    /\ run' = [run EXCEPT ![p] = mkdir_failed(run[p], FS)]
    /\ UNCHANGED <<dirs, files, ro, last, hist, manager, content>>

\* the caller of call p takes the result
Taken(p) ==
    /\ run[p].pc = "done"
    /\ run' = [run EXCEPT ![p] = Idle]
    /\ UNCHANGED <<dirs, files, ro, last, hist, manager, content>>

RaceRequests ==
    [file_path : {"m.osm"}, file_types : {<<".osm">>}, must_exist : {FALSE},
     default_dir : {"", "/data/out"}, enable_fuzzy_matching : {FALSE}]
    \union
    [file_path : {"/data/out/m.osm"}, file_types : {<<".osm">>}, must_exist : {FALSE},
     default_dir : {""}, enable_fuzzy_matching : {FALSE}]

NextRace ==
    \/ \E d \in {"/data", "/data/out", output_dir} :
          (\A p \in Procs : run[p].pc = "idle") /\ RmTree(d)
    \/ \E p \in Procs : \E req \in RaceRequests : Start(p, req)
    \/ \E p \in Procs : Probe(p)
    \/ \E p \in Procs : Mkdir(p)
    \/ \E p \in Procs : Isdir(p)
    \/ \E p \in Procs : Taken(p)

\* two create-mode calls interleaved step by step on a writable filesystem;
\* directories are removed only between the calls
SpecRace == Init /\ [][NextRace]_vars

(***************************************************************************)
(* OpenStudioManager (openstudio_tools.py).  A model is the record of the   *)
(* building it was read from and of whether the wizard was applied to it;   *)
(* content[f] is what the file f holds: <<model>> for an OSM file the       *)
(* engine can load, None for anything else.  An operation is a function     *)
(* from its arguments and the state st (the filesystem and the manager's    *)
(* two fields) to its outcome and the state it leaves.  The server runs     *)
(* one tool call at a time.                                                 *)
(***************************************************************************)
\* F applied to the value of e, which is computed once
Once(e, F(_)) == CHOOSE y \in {F(v) : v \in {e}} : TRUE

Mgr ==
    [dirs |-> dirs, files |-> files, ro |-> ro, content |-> content,
     current_model |-> current_model, current_file_path |-> current_file_path]

\* what an operation returns (kind "ok") or raises, and the state it leaves
Done(kind, path, st) == [kind |-> kind, path |-> path, st |-> st]

\* resolve_osm_path(config, osm_path)
osm_request(osm_path) ==
    [file_path |-> osm_path, file_types |-> <<".osm">>, must_exist |-> TRUE,
     default_dir |-> "", enable_fuzzy_matching |-> TRUE]

\* resolve_output_path(config, output_path, file_types=file_types)
output_request(output_path, file_types) ==
    [file_path |-> output_path, file_types |-> file_types, must_exist |-> FALSE,
     default_dir |-> "", enable_fuzzy_matching |-> FALSE]

\* a load that hands out the model held when path is the one it was loaded from
read_cached(path, st) ==
    IF st.current_file_path = <<path>> THEN st.current_model
    ELSE IF abspath(path) \in st.files /\ abspath(path) \in DOMAIN st.content
    THEN st.content[abspath(path)] ELSE None

\* load_osm_file_as_model(path): the model in the file, None when there is none
read(path, st) ==
    IF abspath(path) \in st.files /\ abspath(path) \in DOMAIN st.content
    THEN st.content[abspath(path)] ELSE None

\* the file path can be written: its directory is not read-only, and it
\* exists or can be created there
writable(path, st) ==
    /\ dirname(abspath(path)) \notin st.ro
    /\ \/ abspath(path) \in st.files
       \/ /\ ~exists(path, st)
          /\ isdir(dirname(abspath(path)), st)

\* the state after data was written to the file path
written(path, data, st) ==
    [st EXCEPT !.files = @ \union {abspath(path)},
               !.content = (abspath(path) :> data) @@ @]

\* load_osm_file that returns without "self.current_model = model"
load_resolved_unrecorded(res, st) ==
    IF res.kind = "FileNotFoundError" THEN Done("FileNotFoundError", "", st)
    ELSE IF res.kind # "ok" THEN Done("ValueError", "", st)
    ELSE IF read(res.path, st) = None THEN Done("ValueError", "", st)
    ELSE Done("ok", res.path, st)

\* load_osm_file that assigns what the engine returned before testing it
load_resolved_assigning_first(res, st) ==
    IF res.kind = "FileNotFoundError" THEN Done("FileNotFoundError", "", st)
    ELSE IF res.kind # "ok" THEN Done("ValueError", "", st)
    ELSE IF ~exists(res.path, st) THEN Done("FileNotFoundError", "", st)
    ELSE IF read(res.path, st) = None
    THEN Done("ValueError", "", [st EXCEPT !.current_model = None])
    ELSE Done("ok", res.path, [st EXCEPT !.current_model = read(res.path, st),
                                         !.current_file_path = <<res.path>>])

\* load_osm_file, res being what resolve_osm_path gave
load_resolved(res, st) ==
    IF res.kind = "FileNotFoundError" THEN Done("FileNotFoundError", "", st)
    ELSE IF res.kind # "ok" THEN Done("ValueError", "", st)
    ELSE IF ~exists(res.path, st) THEN Done("FileNotFoundError", "", st)
    ELSE IF read(res.path, st) = None THEN Done("ValueError", "", st)
    ELSE Done("ok", res.path, [st EXCEPT !.current_model = read(res.path, st),
                                         !.current_file_path = <<res.path>>])

\* load_osm_file(file_path)
load_osm_file(file_path, st) ==
    Once(resolve_path(osm_request(file_path), st), LAMBDA res : load_resolved(res, st))

\* save_osm_file from "Saving OSM file" on: the toolkit writes the model
save_to(save_path, st) ==
    IF writable(save_path, st)
    THEN Done("ok", save_path,
              [written(save_path, st.current_model, st)
                  EXCEPT !.current_file_path = <<save_path>>])
    ELSE Done("ValueError", "", st)

\* save_osm_file with a file_path, res being what resolve_output_path gave
save_resolved(res, st) ==
    IF res.kind # "ok" THEN Done("ValueError", "", [st EXCEPT !.dirs = res.dirs])
    ELSE save_to(res.path, [st EXCEPT !.dirs = res.dirs])

\* save_osm_file that resolves the path before it looks at the model
save_osm_file_resolving_first(file_path, st) ==
    IF file_path # None /\ st.current_model = None
    THEN Done("ValueError", "",
              [st EXCEPT !.dirs = resolve_path(output_request(file_path[1], <<".osm">>),
                                               st).dirs])
    ELSE IF st.current_model = None \/ st.current_file_path = None
    THEN Done("ValueError", "", st)
    ELSE save_to(st.current_file_path[1], st)

\* save_osm_file(file_path); file_path is None or <<path>>
save_osm_file(file_path, st) ==
    IF st.current_model = None THEN Done("ValueError", "", st)
    ELSE IF file_path # None
    THEN Once(resolve_path(output_request(file_path[1], <<".osm">>), st),
              LAMBDA res : save_resolved(res, st))
    ELSE IF st.current_file_path = None THEN Done("ValueError", "", st)
    ELSE save_to(st.current_file_path[1], st)

\* convert_to_idf from "Converting OSM to IDF" on: the toolkit writes the IDF
convert_to(res, st) ==
    IF res.kind # "ok" THEN Done("ValueError", "", [st EXCEPT !.dirs = res.dirs])
    ELSE IF writable(res.path, [st EXCEPT !.dirs = res.dirs])
    THEN Done("ok", res.path, written(res.path, None, [st EXCEPT !.dirs = res.dirs]))
    ELSE Done("ValueError", "", [st EXCEPT !.dirs = res.dirs])

\* os.path.splitext(os.path.basename(path))[0] + ".idf"
idf_name(path) ==
    SubSeq(basename(path), 1, Len(basename(path)) - Len(splitext_ext(basename(path))))
    \o ".idf"

\* convert_to_idf(output_path); output_path is None or <<path>>
convert_to_idf(output_path, st) ==
    IF st.current_model = None THEN Done("ValueError", "", st)
    ELSE IF output_path # None
    THEN Once(resolve_path(output_request(output_path[1], <<".idf">>), st),
              LAMBDA res : convert_to(res, st))
    ELSE IF st.current_file_path = None
    THEN convert_to(Return(join(output_dir, "model.idf"), st.dirs), st)
    ELSE convert_to(Return(join(output_dir, idf_name(st.current_file_path[1])), st.dirs),
                    st)

\* _check_model_loaded, then the toolkit's query, which raises or answers
inspect(raises, st) ==
    IF st.current_model = None \/ raises THEN Done("ValueError", "", st)
    ELSE Done("ok", "", st)

\* copy_file that copies without looking whether the target exists
copy_to_unchecked(source, dst, overwrite, made, st) ==
    IF dst.kind # "ok" THEN Done("error", "", [st EXCEPT !.dirs = dst.dirs])
    ELSE IF dirname(dst.path) # "" /\ made.err # ""
    THEN Done("error", "", [st EXCEPT !.dirs = made.dirs])
    ELSE IF abspath(source) = abspath(dst.path)
         \/ ~writable(dst.path, [st EXCEPT !.dirs = made.dirs])
    THEN Done("error", "", [st EXCEPT !.dirs = made.dirs])
    ELSE Done("ok", dst.path,
              written(dst.path, read(source, st), [st EXCEPT !.dirs = made.dirs]))

\* copy_file from "Check if target already exists" on; dst is what
\* resolve_path gave for the target, made what os.makedirs(target_dir) did
copy_to(source, dst, overwrite, made, st) ==
    IF dst.kind # "ok" THEN Done("error", "", [st EXCEPT !.dirs = dst.dirs])
    ELSE IF exists(dst.path, [st EXCEPT !.dirs = dst.dirs]) /\ ~overwrite
    THEN Done("error", "", [st EXCEPT !.dirs = dst.dirs])
    ELSE IF dirname(dst.path) # "" /\ made.err # ""
    THEN Done("error", "", [st EXCEPT !.dirs = made.dirs])
    ELSE IF abspath(source) = abspath(dst.path)
         \/ ~writable(dst.path, [st EXCEPT !.dirs = made.dirs])
    THEN Done("error", "", [st EXCEPT !.dirs = made.dirs])
    ELSE Done("ok", dst.path,
              written(dst.path, read(source, st), [st EXCEPT !.dirs = made.dirs]))

\* copy_file once the target is resolved
copy_resolved(source, dst, overwrite, st) ==
    Once(IF dst.kind = "ok" /\ dirname(dst.path) # ""
         THEN makedirs(dirname(dst.path), [st EXCEPT !.dirs = dst.dirs])
         ELSE Made("", dst.dirs),
         LAMBDA made : copy_to(source, dst, overwrite, made, st))

\* copy_file once the source is resolved, to src
copy_from(src, target_path, overwrite, file_types, st) ==
    IF src.kind # "ok" THEN Done("error", "", st)
    ELSE Once(resolve_path(output_request(target_path, file_types), st),
              LAMBDA dst : copy_resolved(src.path, dst, overwrite, st))

\* copy_file(source_path, target_path, overwrite, file_types); every failure
\* is returned, not raised
copy_file(source_path, target_path, overwrite, file_types, st) ==
    Once(resolve_path([osm_request(source_path) EXCEPT !.file_types = file_types], st),
         LAMBDA src : copy_from(src, target_path, overwrite, file_types, st))

\* "except Exception as e: raise ValueError(...)"
reraised(out) == IF out.kind = "ok" THEN out ELSE Done("ValueError", "", out.st)

\* the wizard's step 6 with no path: a name with the time in it is resolved
\* and the model saved there
wizard_save_new(res, st) ==
    IF res.kind # "ok" THEN Done("ValueError", "", [st EXCEPT !.dirs = res.dirs])
    ELSE reraised(save_osm_file(<<res.path>>, [st EXCEPT !.dirs = res.dirs]))

\* the toolkit's wizard applied to the model
run_wizard(model) == [model EXCEPT !.wizard = TRUE]

\* the wizard's steps 3 to 6: model is what step 1 produced, valid the
\* validator's answer
wizard_steps(model, resolved_path, valid, st) ==
    IF model = None \/ ~valid THEN Done("ValueError", "", st)
    ELSE IF resolved_path # None
    THEN reraised(save_osm_file(resolved_path,
                                [st EXCEPT !.current_model = <<run_wizard(model[1])>>]))
    ELSE Once(resolve_path(output_request("wizard_applied.osm", <<>>), st),
              LAMBDA res : wizard_save_new(
                              res, [st EXCEPT !.current_model = <<run_wizard(model[1])>>]))

\* the wizard's step 1 with a model_path, res being what resolve_osm_path gave
wizard_load(res, valid, st) ==
    IF res.kind # "ok" THEN Done("ValueError", "", st)
    ELSE wizard_steps(read(res.path, st), <<res.path>>, valid, st)

\* apply_space_type_and_construction_set_wizard(..., model_path)
apply_wizard(model_path, valid, st) ==
    IF model_path # None
    THEN Once(resolve_path(osm_request(model_path[1]), st),
              LAMBDA res : wizard_load(res, valid, st))
    ELSE IF st.current_model = None THEN Done("ValueError", "", st)
    ELSE wizard_steps(st.current_model, st.current_file_path, valid, st)

\* the operation's outcome takes effect and is handed to the tool's caller,
\* with the model the manager holds; was is the state the operation ran against
Operate(op, arg, outcome) ==
    /\ last = <<>>
    /\ \E out \in {outcome} :
          /\ dirs' = out.st.dirs
          /\ files' = out.st.files
          /\ content' = out.st.content
          /\ current_model' = out.st.current_model
          /\ current_file_path' = out.st.current_file_path
          /\ last' = <<[req |-> [op |-> op, arg |-> arg],
                        res |-> [kind |-> out.kind, path |-> out.path,
                                 model |-> out.st.current_model],
                        before |-> dirs, was |-> Mgr]>>
    /\ UNCHANGED <<ro, hist, run>>

\* something outside the server writes data to the file f
WriteFile(f, data) ==
    /\ last = <<>>
    /\ dirname(f) \in dirs
    /\ files' = files \union {f}
    /\ content' = (f :> data) @@ content
    /\ f \notin files \/ read(f, Mgr) # data
    /\ UNCHANGED <<dirs, ro, last, hist, run, manager>>

\* the buildings of the OSM files written for the manager
Buildings == {"First Building Name", "Second Building Name"}

NextManager ==
    \/ \E data \in {None} \union {<<[building |-> b, wizard |-> FALSE]>> : b \in Buildings} :
          WriteFile("/workspace/outputs/m.osm", data)
    \/ WriteFile("/m.osm", <<[building |-> "Third Building Name", wizard |-> FALSE]>>)
    \/ RemoveFile("/m.osm")
    \/ RmTree(output_dir)
    \/ Chmod(output_dir)
    \/ \E p \in {"m.osm", "/m.osm", "m.txt"} :
          Operate("load_osm_file", <<p>>, load_osm_file(p, Mgr))
    \/ \E p \in {None, <<"m.osm">>} : Operate("save_osm_file", p, save_osm_file(p, Mgr))
    \/ \E p \in {None, <<"m.idf">>} : Operate("convert_to_idf", p, convert_to_idf(p, Mgr))
    \/ \E raises \in BOOLEAN : Operate("get", <<raises>>, inspect(raises, Mgr))
    \/ \E overwrite \in BOOLEAN :
          Operate("copy_file", <<"/m.osm", "m.osm", overwrite>>,
                  copy_file("/m.osm", "m.osm", overwrite, <<>>, Mgr))
    \/ \E p \in {None, <<"/m.osm">>} : \E valid \in BOOLEAN :
          Operate("wizard", p, apply_wizard(p, valid, Mgr))
    \/ Returned

\* the tools of the server called one after another while files are written,
\* removed and protected outside it
SpecManager == Init /\ [][NextManager]_vars

NextReload ==
    \/ \E data \in {None} \union {<<[building |-> b, wizard |-> FALSE]>> : b \in Buildings} :
          WriteFile("/workspace/outputs/m.osm", data)
    \/ WriteFile("/m.osm", <<[building |-> "Third Building Name", wizard |-> FALSE]>>)
    \/ \E p \in {"m.osm", "/m.osm"} :
          Operate("load_osm_file", <<p>>, load_osm_file(p, Mgr))
    \/ Remember

\* files are loaded, written anew and loaded again; the caller keeps the
\* result of the load before (hist)
SpecReload == Init /\ [][NextReload]_vars

NextWizard ==
    \/ \E b \in Buildings :
          WriteFile("/workspace/outputs/m.osm", <<[building |-> b, wizard |-> FALSE]>>)
    \/ WriteFile("/workspace/outputs/m.osm", None)
    \/ RemoveFile("/workspace/outputs/m.osm")
    \/ Chmod(output_dir)
    \/ \E p \in {"m.osm", "m.txt"} :
          Operate("load_osm_file", <<p>>, load_osm_file(p, Mgr))
    \/ \E p \in {None, <<"m.osm">>} : \E valid \in BOOLEAN :
          Operate("wizard", p, apply_wizard(p, valid, Mgr))
    \/ Operate("save_osm_file", None, save_osm_file(None, Mgr))
    \/ Returned

\* models loaded, changed by the wizard and saved in a directory that is at
\* times read-only
SpecWizard == Init /\ [][NextWizard]_vars

(***************************************************************************)
(* Properties of resolve_path.  Each is about the call recorded in last:   *)
(* its request last[1].req, its outcome last[1].res, and the filesystem    *)
(* the call ran against, which is files, ro and the directories            *)
(* last[1].before (a call changes nothing but dirs).                       *)
(***************************************************************************)
\* the candidate roots of the deployment, highest priority first
PriorityRoots ==
    <<"/mnt/user-data/uploads", "/home/claude", "/workspace/sample_files/models",
      "/workspace/sample_files", "/workspace/outputs", "/workspace">>

\* the paths that named a file or a directory when the recorded call ran
Entries == files \union last[1].before

\* the filesystem the recorded call ran against
AtCall == [dirs |-> last[1].before, files |-> files, ro |-> ro]

\* the recorded call got past the extension validation
PassesExtensionCheck ==
    ~bad_extension(translate_path(last[1].req.file_path), last[1].req.file_types)

\* the recorded call returned exactly path
Returns(path) == last[1].res.kind = "ok" /\ last[1].res.path = path

\* the path p joined under the i-th candidate root named something
FoundUnder(i, p) == (PriorityRoots[i] \o "/" \o p) \in Entries

AbsoluteInput == isabs(last[1].req.file_path)

\* the input of the recorded call holds no backslash
NoBackslash == ReplaceChar(last[1].req.file_path, "\\", "/") = last[1].req.file_path

\* C3 as stated: a must-exist lookup of an absolute path that exists and
\* passes the extension validation returns exactly the input string.
C3_ExistingAbsoluteUnchanged ==
    (/\ last # <<>>
     /\ last[1].req.must_exist
     /\ AbsoluteInput
     /\ exists(last[1].req.file_path, AtCall)
     /\ PassesExtensionCheck)
    => Returns(last[1].req.file_path)

\* C3 amended: a must-exist lookup of an absolute path that holds no
\* backslash, exists and passes the extension validation returns exactly the
\* input string.
C3_ExistingAbsoluteNoBackslashUnchanged ==
    (/\ last # <<>>
     /\ last[1].req.must_exist
     /\ AbsoluteInput
     /\ NoBackslash
     /\ last[1].req.file_path \in Entries
     /\ PassesExtensionCheck)
    => Returns(last[1].req.file_path)

\* /m.osm exists and the lookup of "/m.osm" returned "/m.osm", while a
\* file of that name lies under a candidate root
C3_Witness ==
    /\ last # <<>>
    /\ last[1].req.file_path = "/m.osm"
    /\ last[1].req.must_exist
    /\ {"/m.osm", "/workspace/m.osm"} \subseteq files
    /\ Returns("/m.osm")

\* C4 as stated: a must-exist lookup of an absolute path that does not exist
\* (and passes the extension validation, which comes first) fails with
\* FileNotFoundError and returns no path found elsewhere.
C4_MissingAbsoluteNotFound ==
    (/\ last # <<>>
     /\ last[1].req.must_exist
     /\ AbsoluteInput
     /\ ~exists(last[1].req.file_path, AtCall)
     /\ PassesExtensionCheck)
    => last[1].res.kind = "FileNotFoundError"

\* C4 amended: a must-exist lookup of an absolute path that passes the
\* extension validation and that, with its backslashes replaced by slashes,
\* does not exist fails with FileNotFoundError, also when a file of the same
\* name lies under a candidate root or in the current directory.
C4_MissingNormalizedAbsoluteNotFound ==
    (/\ last # <<>>
     /\ last[1].req.must_exist
     /\ AbsoluteInput
     /\ ReplaceChar(last[1].req.file_path, "\\", "/") \notin Entries
     /\ PassesExtensionCheck)
    => last[1].res.kind = "FileNotFoundError"

\* /m.osm does not exist, /workspace/m.osm does, and the lookup of "/m.osm"
\* failed with FileNotFoundError
C4_Witness ==
    /\ last # <<>>
    /\ last[1].req.file_path = "/m.osm"
    /\ last[1].req.must_exist
    /\ "/m.osm" \notin files
    /\ "/workspace/m.osm" \in files
    /\ last[1].res.kind = "FileNotFoundError"

\* the candidate roots that existed when the recorded call ran, in order
SearchedRoots == SelectSeq(PriorityRoots, LAMBDA r : r \in last[1].before)

\* what the fuzzy matcher returns for the recorded call
Suggested ==
    suggest_similar_paths(translate_path(last[1].req.file_path),
                          last[1].req.file_types, AtCall)

InputSuffix == splitext_ext(translate_path(last[1].req.file_path))

\* C5: a call whose input has a non-empty suffix that is not, compared
\* without case, in a non-empty list of allowed extensions fails with
\* ValueError, never with FileNotFoundError, and creates no directory,
\* whatever the filesystem holds and for both values of must_exist.
C5_ExtensionCheckFirst ==
    (/\ last # <<>>
     /\ last[1].req.file_types # <<>>
     /\ InputSuffix # ""
     /\ \A i \in 1..Len(last[1].req.file_types) :
           Lower(last[1].req.file_types[i]) # Lower(InputSuffix))
    => /\ last[1].res.kind = "ValueError"
       /\ dirs = last[1].before

\* "m.txt" was asked for as an output path under /data/out, which did not
\* exist: the call failed with ValueError and /data/out still does not exist
C5_Witness ==
    /\ last # <<>>
    /\ last[1].req.file_path = "m.txt"
    /\ ~last[1].req.must_exist
    /\ last[1].req.default_dir = "/data/out"
    /\ "/data/out" \notin dirs
    /\ last[1].res.kind = "ValueError"

\* the input of the recorded call with its backslashes replaced by slashes
Slashed == ReplaceChar(last[1].req.file_path, "\\", "/")

\* a single ASCII letter followed by ":/" starts the slashed input
HasDrivePrefix ==
    /\ Len(Slashed) >= 3
    /\ SubSeq(Slashed, 2, 3) = ":/"
    /\ \E i \in 1..Len(LowerChars) : CharAt(LowerChars, i) = LowerChar(CharAt(Slashed, 1))

\* the container-mount path of a drive-letter input
MountPath == "/mnt/" \o LowerChar(CharAt(Slashed, 1)) \o "/" \o From(Slashed, 4)

\* C6 as stated: an input that starts, after backslash replacement, with any
\* single letter and ":/" is handled as the absolute path /mnt/<letter>/...:
\* when the call returns a path it is that path, never a path under a
\* candidate root.
C6_AnyDriveLetterTranslated ==
    (/\ last # <<>>
     /\ HasDrivePrefix
     /\ last[1].res.kind = "ok")
    => last[1].res.path = MountPath

\* C7 as stated: C:\Users\a\model.osm and c:\Users\a\model.osm are treated as
\* /mnt/c/Users/a/model.osm: a must-exist lookup succeeds exactly when that
\* path exists and returns it, and an output-path resolution returns it.
C7_CDriveTranslated ==
    (/\ last # <<>>
     /\ last[1].req.file_path \in {"C:\\Users\\a\\model.osm", "c:\\Users\\a\\model.osm"})
    => IF last[1].req.must_exist
       THEN /\ last[1].res.kind = "ok" <=> "/mnt/c/Users/a/model.osm" \in Entries
            /\ last[1].res.kind = "ok" => last[1].res.path = "/mnt/c/Users/a/model.osm"
       ELSE Returns("/mnt/c/Users/a/model.osm")

\* the directory an output path with a bare name is put in
TargetDir ==
    IF last[1].req.default_dir # "" THEN last[1].req.default_dir ELSE "/workspace/outputs"

\* the deepest directory on the way to d that existed when the call ran
DeepestExisting(d) ==
    CHOOSE a \in Ancestors(d) \cap last[1].before :
        \A b \in Ancestors(d) \cap last[1].before : Len(b) <= Len(a)

\* d existed or the server was allowed to create it
CreationPermitted(d) ==
    \/ d \in last[1].before
    \/ /\ DeepestExisting(d) \notin ro
       /\ Ancestors(d) \cap files = {}

\* C8: an output-path resolution (must_exist false) of a bare filename that
\* passes the extension validation and exists in no candidate root and not in
\* the current directory returns D/filename, D being default_dir or, without
\* one, the output directory; D exists afterwards when it existed or could be
\* created.
C8_CreateUnderDefaultDir ==
    (/\ last # <<>>
     /\ ~last[1].req.must_exist
     /\ basename(translate_path(last[1].req.file_path)) = last[1].req.file_path
     /\ PassesExtensionCheck
     /\ \A i \in 1..Len(PriorityRoots) : ~FoundUnder(i, last[1].req.file_path)
     /\ (cwd \o "/" \o last[1].req.file_path) \notin Entries)
    => /\ Returns(TargetDir \o "/" \o last[1].req.file_path)
       /\ CreationPermitted(TargetDir) => TargetDir \in dirs

\* "m.osm" was asked for under /data/out, which did not exist: the call
\* returned /data/out/m.osm and /data/out exists now
C8_Witness ==
    /\ last # <<>>
    /\ last[1].req.file_path = "m.osm"
    /\ ~last[1].req.must_exist
    /\ last[1].req.default_dir = "/data/out"
    /\ "/data/out" \notin last[1].before
    /\ "/data/out" \in dirs
    /\ Returns("/data/out/m.osm")

\* C9 as stated: an output-path resolution (must_exist false) raises nothing
\* when a parent directory cannot be created, for an absolute input as for a
\* relative one: past the extension validation it always returns a path.
C9_BestEffortBothBranches ==
    (/\ last # <<>>
     /\ ~last[1].req.must_exist
     /\ PassesExtensionCheck)
    => last[1].res.kind = "ok"

\* C2: resolve_path keeps no cache.  When a must-exist lookup failed with
\* FileNotFoundError and the same lookup is made again in the same process,
\* after the file was created under a candidate root with no higher-priority
\* root holding it, the second call returns exactly that root joined with the
\* name; and a repeated request run against the same filesystem as before
\* has the same outcome as before, whatever was asked in between.
C2_NoCache ==
    (/\ last # <<>>
     /\ hist # <<>>
     /\ last[1].req = hist[1].req
     /\ last[1].req.must_exist)
    => /\ hist[1].res.kind = "FileNotFoundError"
          => \A i \in 1..Len(PriorityRoots) :
                (/\ FoundUnder(i, last[1].req.file_path)
                 /\ \A j \in 1..(i - 1) : ~FoundUnder(j, last[1].req.file_path))
                => Returns(PriorityRoots[i] \o "/" \o last[1].req.file_path)
       /\ (/\ hist[1].before = last[1].before
           /\ hist[1].files = files
           /\ hist[1].ro = ro)
          => last[1].res = hist[1].res

\* the lookup of "m.osm" failed, m.osm was then written to the output
\* directory, and the same lookup returned /workspace/outputs/m.osm
C2_Witness ==
    /\ last # <<>>
    /\ hist # <<>>
    /\ last[1].req = hist[1].req
    /\ hist[1].res.kind = "FileNotFoundError"
    /\ "/workspace/outputs/m.osm" \notin hist[1].files
    /\ "/workspace/outputs/m.osm" \in files
    /\ Returns("/workspace/outputs/m.osm")

\* the files with an extension in the filter (any file without a filter), under
\* a search directory, whose name is similar enough to the recorded target
Similarity(f) == ratio(Lower(basename(last[1].req.target_path)), Lower(basename(f)))

Qualifies(f) ==
    /\ f \in files
    /\ \E i \in 1..Len(PriorityRoots) : StartsWith(f, PriorityRoots[i] \o "/")
    /\ last[1].req.extensions # <<>> =>
         \E i \in 1..Len(last[1].req.extensions) :
            Lower(last[1].req.extensions[i]) = Lower(splitext_ext(f))
    /\ 10 * Similarity(f)[1] >= 3 * Similarity(f)[2]

\* C11: suggest_similar_paths returns the top candidates only.  Every path
\* returned is a file under a search directory with an extension of the
\* filter (when one is given) and a similarity of at least 0.3 to the
\* lower-cased target name; the list is in non-increasing order of
\* similarity and has at most 10 entries; and a qualifying file is left out
\* only of a full list whose entries are all at least as similar.
C11_TopCandidatesOnly ==
    (last # <<>> /\ last[1].res.kind = "suggested")
    => /\ \A i \in 1..Len(last[1].res.suggestions) : Qualifies(last[1].res.suggestions[i])
       /\ \A i, j \in 1..Len(last[1].res.suggestions) :
             i < j => FracGE(Similarity(last[1].res.suggestions[i]),
                             Similarity(last[1].res.suggestions[j]))
       /\ Len(last[1].res.suggestions) <= 10
       /\ \A f \in files :
             (Qualifies(f) /\ f \notin Range(last[1].res.suggestions))
             => /\ Len(last[1].res.suggestions) = 10
                /\ \A i \in 1..10 : FracGE(Similarity(last[1].res.suggestions[i]),
                                           Similarity(f))

\* ten paths were returned for "offic.osm" with the filter .osm, office.osm
\* first, while a less similar qualifying file (school.osm) was left out and
\* files of another extension or too different a name exist
C11_Witness ==
    /\ last # <<>>
    /\ last[1].res.kind = "suggested"
    /\ last[1].req.target_path = "offic.osm"
    /\ last[1].req.extensions = <<".osm">>
    /\ Len(last[1].res.suggestions) = 10
    /\ last[1].res.suggestions[1] = "/workspace/sample_files/models/office.osm"
    /\ "/workspace/sample_files/models/school.osm" \in files
    /\ "/workspace/sample_files/models/school.osm" \notin Range(last[1].res.suggestions)

\* the similarity of the name of f to the name the recorded lookup asked for
NameSimilarity(f) ==
    ratio(Lower(basename(translate_path(last[1].req.file_path))), Lower(basename(f)))

\* f is a file under a candidate root with an allowed extension and a
\* similarity of at least 0.3 to the requested name
Candidate(f) ==
    /\ f \in files
    /\ \E i \in 1..Len(PriorityRoots) : StartsWith(f, PriorityRoots[i] \o "/")
    /\ \E i \in 1..Len(last[1].req.file_types) :
          Lower(last[1].req.file_types[i]) = Lower(splitext_ext(f))
    /\ 10 * NameSimilarity(f)[1] >= 3 * NameSimilarity(f)[2]

\* the recorded call is a must-exist lookup with fuzzy matching that failed
FuzzyLookupFailed ==
    /\ last # <<>>
    /\ last[1].res.kind = "FileNotFoundError"
    /\ last[1].req.must_exist
    /\ last[1].req.enable_fuzzy_matching

\* the positions of f in the suggestions of the recorded failure
Places(f) ==
    {i \in 1..Len(last[1].res.suggestions) : last[1].res.suggestions[i] = f}

\* C12 as stated: when a must-exist lookup with fuzzy matching fails, every
\* file under a candidate root with an allowed extension and a similarity of
\* at least 0.3 is in the failure's suggestions, before every suggestion of
\* lower similarity, however many other candidates there are.
C12_SimilarFileSuggested ==
    FuzzyLookupFailed
    => \A f \in files :
          Candidate(f)
          => /\ Places(f) # {}
             /\ \A i \in Places(f), j \in 1..Len(last[1].res.suggestions) :
                   ~FracGE(NameSimilarity(last[1].res.suggestions[j]), NameSimilarity(f))
                   => i < j

\* C12 amended: the failure lists at most the first five entries of the
\* matcher's ranking.  A qualifying file is in the list unless the list is
\* full with five entries that are each at least as similar, and every listed
\* entry stands before every listed entry of lower similarity.
C12_SimilarFileAmongFirstFive ==
    (FuzzyLookupFailed /\ \E f \in files : Candidate(f))
    => /\ last[1].res.suggestions # <<>>
       /\ Len(last[1].res.suggestions) <= 5
       /\ \A f \in files :
             Candidate(f)
             => \/ Places(f) # {}
                \/ /\ Len(last[1].res.suggestions) = 5
                   /\ \A j \in 1..5 :
                         FracGE(NameSimilarity(last[1].res.suggestions[j]), NameSimilarity(f))
       /\ \A i, j \in 1..Len(last[1].res.suggestions) :
             i < j => FracGE(NameSimilarity(last[1].res.suggestions[i]),
                             NameSimilarity(last[1].res.suggestions[j]))

\* the lookup of "offic.osm" failed with office.osm suggested first and the
\* less similar school.osm after it
C12_Witness ==
    /\ FuzzyLookupFailed
    /\ last[1].req.file_path = "offic.osm"
    /\ 1 \in Places("/workspace/sample_files/models/office.osm")
    /\ Places("/workspace/sample_files/models/school.osm") # {}

\* the recorded call repeated a call made right before it
Repeated == Len(last) = 2

C14_OnlyCreatesDirectories ==
    [][(last' # last /\ last' # <<>>)
       => /\ files' = files
          /\ ro' = ro
          /\ dirs \subseteq dirs'
          /\ last'[1].req.must_exist => dirs' = dirs]_vars

\* a must-exist lookup with fuzzy matching failed while the output directory
\* did not exist, and the output directory still does not exist
C14_Witness ==
    /\ last # <<>>
    /\ last[1].req.must_exist
    /\ last[1].req.enable_fuzzy_matching
    /\ last[1].res.kind = "FileNotFoundError"
    /\ "/workspace/outputs" \notin last[1].before
    /\ "/workspace/outputs" \notin dirs

\* the recorded call repeats the request of the call kept in hist
SameRequestAsBefore == last # <<>> /\ hist # <<>> /\ last[1].req = hist[1].req

\* C15: the candidate roots of a call are exactly those of the six
\* configured roots whose directory exists when the call is made, in
\* priority order, and existence is evaluated anew on every call: the list
\* in a failure names the roots existing now, a file in a root that appeared
\* since the same request was answered from a lower root wins, and a root
\* that was removed since then is not answered from again.
C15_RootsReevaluated ==
    /\ (last # <<>> /\ last[1].res.lists_roots) => last[1].res.searched = SearchedRoots
    /\ (SameRequestAsBefore /\ hist[1].res.kind = "ok")
       => /\ \A i \in 1..Len(PriorityRoots) :
                (/\ PriorityRoots[i] \notin hist[1].before
                 /\ FoundUnder(i, last[1].req.file_path)
                 /\ \A j \in 1..(i - 1) : ~FoundUnder(j, last[1].req.file_path))
                => Returns(PriorityRoots[i] \o "/" \o last[1].req.file_path)
          /\ dirname(hist[1].res.path) \notin last[1].before
             => ~Returns(hist[1].res.path)

\* "m.osm" was answered from the output directory while the uploads
\* directory did not exist; the uploads directory appeared with an m.osm and
\* the same request is now answered from it
C15_Witness ==
    /\ SameRequestAsBefore
    /\ "/mnt/user-data/uploads" \notin hist[1].before
    /\ hist[1].res.path = "/workspace/outputs/m.osm"
    /\ "/workspace/outputs/m.osm" \in files
    /\ Returns("/mnt/user-data/uploads/m.osm")

\* C16 as stated: every path resolve_path returns is absolute, for every
\* input, both values of must_exist and every default_dir, a relative one
\* included.
C16_ReturnsAbsolutePath ==
    (last # <<>> /\ last[1].res.kind = "ok") => SubSeq(last[1].res.path, 1, 1) = "/"

\* C17: create-mode resolution needs no lock: however the filesystem steps of
\* two create-mode calls are interleaved, each call that is over has returned
\* its path without error and the directory of that path exists
C17_RedundantCreationSafe ==
    \A p \in Procs :
        run[p].pc = "done" =>
            /\ run[p].err = ""
            /\ isdir(dirname(run[p].path), FS)

\* both calls are over, their target was the same directory, missing when
\* each of them started; call 2, in the unguarded branch, lost the race for a
\* mkdir and went on
C17_Witness ==
    /\ \A p \in Procs : run[p].pc = "done" /\ run[p].err = ""
    /\ dirname(run[1].path) = dirname(run[2].path)
    /\ dirname(run[1].path) \notin run[1].before \union run[2].before
    /\ run[1].hit = ""
    /\ run[2].hit = "FileExistsError"
    /\ ~run[2].guarded
    /\ run[1].guarded

\* the operation recorded in last, and the one the caller kept before it
Op == last[1].req.op

Loaded(rec) == rec.req.op = "load_osm_file" /\ rec.res.kind = "ok"

\* what the file that the operation of rec returned held when it was called
OnDisk(rec) ==
    IF rec.res.path \in rec.was.files /\ rec.res.path \in DOMAIN rec.was.content
    THEN rec.was.content[rec.res.path] ELSE None

\* the model m is the model n, as loaded or as the wizard updated it
SameModel(m, n) == m # None /\ n # None /\ m[1].building = n[1].building

\* a successful load makes the file's model and the resolved path current
LoadedIsCurrent ==
    (last # <<>> /\ Loaded(last[1])) =>
        /\ current_model # None
        /\ current_model = OnDisk(last[1])
        /\ current_file_path = <<last[1].res.path>>

Reloaded ==
    /\ last # <<>> /\ hist # <<>>
    /\ Loaded(last[1]) /\ Loaded(hist[1])
    /\ last[1].res.path = hist[1].res.path
    /\ OnDisk(last[1]) # hist[1].res.model

\* C19: a load reads the file when it is called: loading a path again after
\* the file was overwritten makes the file's new content the current model,
\* not the model of the first load
C19_LoadReadsDisk ==
    Reloaded =>
        /\ current_model = OnDisk(last[1])
        /\ current_model # hist[1].res.model

C19_Witness ==
    /\ Reloaded
    /\ hist[1].res.model = <<[building |-> "First Building Name", wizard |-> FALSE]>>
    /\ current_model = <<[building |-> "Second Building Name", wizard |-> FALSE]>>

\* C20: with no model loaded, save_osm_file, convert_to_idf and the get_*
\* inspections (get_model_summary among them) raise ValueError and leave the
\* manager and the filesystem as they were; no directory is created
C20_NoModelNoEffect ==
    (/\ last # <<>>
     /\ Op \in {"save_osm_file", "convert_to_idf", "get"}
     /\ last[1].was.current_model = None) =>
        /\ last[1].res.kind = "ValueError"
        /\ dirs = last[1].before
        /\ files = last[1].was.files
        /\ content = last[1].was.content
        /\ current_model = None
        /\ current_file_path = last[1].was.current_file_path

\* save_osm_file("m.osm") with no model and no output directory
C20_Witness ==
    /\ last # <<>>
    /\ Op = "save_osm_file"
    /\ last[1].req.arg = <<"m.osm">>
    /\ last[1].was.current_model = None
    /\ output_dir \notin last[1].before
    /\ last[1].res.kind = "ValueError"
    /\ output_dir \notin dirs

\* the path p named something in the current directory when the call ran
FoundInCwd(p) == (cwd \o "/" \o p) \in Entries

\* C21: the current directory is tried only after every existing candidate
\* root missed: a must-exist lookup of a relative path that exists in the
\* current directory returns the file of the first candidate root that has
\* it when there is one, and the absolute path of the file in the current
\* directory when no candidate root has it.
C21_CwdFallbackLast ==
    (/\ last # <<>>
     /\ last[1].req.must_exist
     /\ ~isabs(translate_path(last[1].req.file_path))
     /\ PassesExtensionCheck
     /\ FoundInCwd(last[1].req.file_path))
    => IF \E i \in 1..Len(PriorityRoots) : FoundUnder(i, last[1].req.file_path)
       THEN \E i \in 1..Len(PriorityRoots) :
               /\ FoundUnder(i, last[1].req.file_path)
               /\ Returns(PriorityRoots[i] \o "/" \o last[1].req.file_path)
       ELSE Returns(cwd \o "/" \o last[1].req.file_path)

\* m.osm exists in the current directory and under the workspace root, the
\* last of the roots; the lookup returned the one under the workspace root
C21_Witness ==
    /\ last # <<>>
    /\ last[1].req.file_path = "m.osm"
    /\ last[1].req.must_exist
    /\ files = {"/app/m.osm", "/workspace/m.osm"}
    /\ Returns("/workspace/m.osm")

\* the recorded call resolved an output path that is relative
RelativeOutput ==
    /\ last # <<>>
    /\ ~last[1].req.must_exist
    /\ ~isabs(translate_path(last[1].req.file_path))
    /\ PassesExtensionCheck

\* C22: an output-path resolution of a relative path with directories in
\* front of the name (sub/dir/out.osm) that exists in no candidate root and
\* not in the current directory returns D/out.osm, D being default_dir or,
\* without one, the output directory: the directories of the input are
\* dropped, and no directory but D (with the missing ones above it) is
\* created, D/sub/dir not.
C22_DirectoryComponentsDropped ==
    (/\ RelativeOutput
     /\ basename(last[1].req.file_path) # last[1].req.file_path
     /\ \A i \in 1..Len(PriorityRoots) : ~FoundUnder(i, last[1].req.file_path)
     /\ ~FoundInCwd(last[1].req.file_path))
    => /\ Returns(TargetDir \o "/" \o basename(last[1].req.file_path))
       /\ dirs = last[1].before \union Ancestors(TargetDir)
       /\ (TargetDir \o "/" \o dirname(last[1].req.file_path)) \notin dirs

\* sub/dir/out.osm asked for under /data/out, which did not exist: the call
\* returned /data/out/out.osm and created /data and /data/out only
C22_Witness ==
    /\ last # <<>>
    /\ last[1].req.file_path = "sub/dir/out.osm"
    /\ ~last[1].req.must_exist
    /\ last[1].req.default_dir = "/data/out"
    /\ "/data" \notin last[1].before
    /\ Returns("/data/out/out.osm")
    /\ dirs \ last[1].before = {"/data", "/data/out"}

\* C23: an output-path resolution searches before it makes a path up: a
\* relative path that exists under a candidate root is returned as the path
\* under the first such root, one that exists only in the current directory
\* as that file's absolute path, whether or not default_dir is given, and no
\* directory is created.
C23_CreateModeSearchesFirst ==
    (/\ RelativeOutput
     /\ \/ \E i \in 1..Len(PriorityRoots) : FoundUnder(i, last[1].req.file_path)
        \/ FoundInCwd(last[1].req.file_path))
    => /\ dirs = last[1].before
       /\ \A i \in 1..Len(PriorityRoots) :
             (/\ FoundUnder(i, last[1].req.file_path)
              /\ \A j \in 1..(i - 1) : ~FoundUnder(j, last[1].req.file_path))
             => Returns(PriorityRoots[i] \o "/" \o last[1].req.file_path)
       /\ (\A i \in 1..Len(PriorityRoots) : ~FoundUnder(i, last[1].req.file_path))
             => Returns(cwd \o "/" \o last[1].req.file_path)

\* m.osm asked for under /data/out, which does not exist, while m.osm exists
\* in the output directory and in the workspace root: the call returned the
\* file of the output directory and /data/out was not created
C23_Witness ==
    /\ last # <<>>
    /\ last[1].req.file_path = "m.osm"
    /\ ~last[1].req.must_exist
    /\ last[1].req.default_dir = "/data/out"
    /\ files = {"/workspace/outputs/m.osm", "/workspace/m.osm"}
    /\ Returns("/workspace/outputs/m.osm")
    /\ "/data/out" \notin dirs

\* what the file path held in the state st, None when it held no model
Held(path, st) ==
    IF path \in st.files /\ path \in DOMAIN st.content THEN st.content[path] ELSE None

\* the recorded operation is copy_file(source, target, overwrite)
Copied == last # <<>> /\ Op = "copy_file"

\* the roots under which the target of the recorded copy_file named
\* something when the call was made
TargetRoots ==
    {i \in 1..Len(PriorityRoots) :
        (PriorityRoots[i] \o "/" \o last[1].req.arg[2])
            \in last[1].was.files \union last[1].was.dirs}

\* the existing path the relative target of the recorded copy_file resolves to
ExistingTarget ==
    PriorityRoots[CHOOSE i \in TargetRoots : \A j \in TargetRoots : i <= j]
        \o "/" \o last[1].req.arg[2]

LookupSucceeded ==
    /\ last # <<>>
    /\ last[1].req.must_exist
    /\ last[1].res.kind = "ok"

\* C25 as stated: the path a successful must-exist lookup with a non-empty
\* list of file types returns has a suffix that is, case ignored, one of the
\* list, whatever the input, one without a suffix included
C25_ReturnedSuffixAllowed ==
    (LookupSucceeded /\ last[1].req.file_types # <<>>)
    => Lower(splitext_ext(last[1].res.path))
          \in {Lower(ft) : ft \in Range(last[1].req.file_types)}

\* C26 as stated: the path a successful must-exist lookup returns names a
\* regular file, never a directory
C26_ReturnsRegularFile ==
    LookupSucceeded => Stat(last[1].res.path, AtCall) \in files

\* C27 as stated: the list suggest_similar_paths returns holds no path twice
C27_NoDuplicateSuggestions ==
    (last # <<>> /\ last[1].res.kind = "suggested")
    => \A i, j \in 1..Len(last[1].res.suggestions) :
          i # j => last[1].res.suggestions[i] # last[1].res.suggestions[j]

C29_FailedLoadKeepsState ==
    (/\ last # <<>>
     /\ Op = "load_osm_file"
     /\ last[1].res.kind # "ok")
    => /\ last[1].res.kind \in {"FileNotFoundError", "ValueError"}
       /\ current_model = last[1].was.current_model
       /\ current_file_path = last[1].was.current_file_path

\* the model of /m.osm is current, and m.osm, which the engine cannot load,
\* was asked for: ValueError, and the model and its path are still current
C29_Witness ==
    /\ last # <<>>
    /\ Op = "load_osm_file"
    /\ last[1].req.arg = <<"m.osm">>
    /\ "/workspace/outputs/m.osm" \in last[1].was.files
    /\ last[1].res.kind = "ValueError"
    /\ current_model = <<[building |-> "Third Building Name", wizard |-> FALSE]>>
    /\ current_file_path = <<"/m.osm">>

\* the path p is the directory d or lies in it
Inside(p, d) == p = d \/ StartsWith(p, d \o "/")

\* C30 as stated: the path a successful must-exist lookup of a relative
\* path returns lies in a candidate root that existed when the call was
\* made or in the current directory, also when the input has ".." in it
C30_ReturnedInsideRoots ==
    (LookupSucceeded /\ ~isabs(translate_path(last[1].req.file_path)))
    => \/ Inside(last[1].res.path, cwd)
       \/ \E i \in 1..Len(PriorityRoots) :
             /\ PriorityRoots[i] \in last[1].before
             /\ Inside(last[1].res.path, PriorityRoots[i])

====
